---- MODULE Spec2Model ----
(***************************************************************************)
(* Model of the orphan-resource discovery run (discover_orphans.py) and of *)
(* the cleanup run (cleanup_resources.py).                                  *)
(*                                                                         *)
(* Time is counted in whole days (one tick = one day, timedelta(days=1)).  *)
(* Every call to the cloud provider has one of three outcomes: it returns, *)
(* it raises botocore's ClientError (a provider error), or it raises some  *)
(* other exception (a transport error such as EndpointConnectionError,     *)
(* which is a BotoCoreError and not a ClientError).                        *)
(***************************************************************************)
EXTENDS Integers, Sequences, FiniteSets, TLC

(* ---------------------------------------------------------------- bounds *)
NumRegions == 2      \* a prefix of self.regions
MaxEntries == 2      \* listing entries the provider returns in one discovery run
MaxFaults == 1       \* provider errors (ClientError) caught in one discovery run
MaxIds == 2          \* identifiers given to one cleanup run
MaxReportEntries == 2  \* entries of all kinds in a report
MaxMissingKeys == 1  \* expected kind keys a readable report lacks

(* ------------------------------------------------------ program constants *)
DEFAULT_AGE_THRESHOLD_DAYS == 90
DEFAULT_LAMBDA_INVOCATION_THRESHOLD == 0

(* Python's None is the empty tuple, a present value v is <<v>>. *)
None == <<>>
Some(v) == <<v>>

(* `x or d` on an optional integer: None and 0 are both falsy. *)
PyOr(x, d) == IF x = None \/ x[1] = 0 THEN d ELSE x[1]

(* The instant datetime.now(timezone.utc) of the constructor, in days. *)
Now == DEFAULT_AGE_THRESHOLD_DAYS + 10

(* ------------------------------------------------------------ timestamps *)
(* A timestamp is either a timezone-aware datetime [dt |-> days] or an     *)
(* ISO-8601 string [iso |-> <<d2, d1, d0, suffix>>]: three decimal digits  *)
(* of the day number and the UTC marker "Z" or the offset "+00:00".        *)
Digits == <<"0", "1", "2", "3", "4", "5", "6", "7", "8", "9">>

DigitVal(c) == (CHOOSE i \in 1..10 : Digits[i] = c) - 1

isoformat(t, suffix) ==
    <<Digits[((t \div 100) % 10) + 1], Digits[((t \div 10) % 10) + 1], Digits[(t % 10) + 1], suffix>>

(* str.replace('Z', '+00:00') *)
replace_Z(s) == [i \in DOMAIN s |-> IF s[i] = "Z" THEN "+00:00" ELSE s[i]]

(* datetime.fromisoformat on a string with a zero UTC offset *)
fromisoformat(s) == DigitVal(s[1]) * 100 + DigitVal(s[2]) * 10 + DigitVal(s[3])

(* The constructor's age_threshold_date for the argument age_arg. *)
AgeThresholdDays(arg) == PyOr(arg, DEFAULT_AGE_THRESHOLD_DAYS)

AgeThresholdDate(arg) == Now - AgeThresholdDays(arg)

(* is_resource_old, with self.age_threshold_date passed as `cutoff` *)
is_resource_old(creation_time, cutoff) ==
    LET t == IF "iso" \in DOMAIN creation_time
             THEN fromisoformat(replace_Z(creation_time.iso))
             ELSE creation_time.dt
    IN  t < cutoff

(* ------------------------------------------------------------------ names *)
(* Resource names, and the characters of each.                              *)
Names == {"serverless-a", "My-ServerLESS", "orders-api"}

Chars(n) ==
    CASE n = "serverless-a" -> <<"s", "e", "r", "v", "e", "r", "l", "e", "s", "s", "-", "a">>
      [] n = "My-ServerLESS" -> <<"M", "y", "-", "S", "e", "r", "v", "e", "r", "L", "E", "S", "S">>
      [] n = "orders-api" -> <<"o", "r", "d", "e", "r", "s", "-", "a", "p", "i">>

(* str.lower() on one character (the upper-case letters of Names) *)
LowerChar(c) ==
    CASE c = "M" -> "m" [] c = "S" -> "s" [] c = "L" -> "l" [] c = "E" -> "e" [] OTHER -> c

lower(s) == [i \in DOMAIN s |-> LowerChar(s[i])]

Marker == <<"s", "e", "r", "v", "e", "r", "l", "e", "s", "s">>

(* `sub in s` on strings *)
Contains(s, sub) ==
    \E i \in 0..(Len(s) - Len(sub)) : \A j \in 1..Len(sub) : s[i + j] = sub[j]

(* 'serverless' in name.lower() *)
HasMarker(n) == Contains(lower(Chars(n)), Marker)

VARIABLES
    \* ---- discovery (OrphanResourceDiscovery)
    age_arg,                      \* constructor argument age_threshold_days
    inv_arg,                      \* constructor argument lambda_invocation_threshold
    age_threshold_date,           \* self.age_threshold_date
    lambda_invocation_threshold,  \* self.lambda_invocation_threshold
    findings,                     \* self.findings
    dpc,                          \* the kind being discovered, "report", "done", "crashed", "idle"
    region,                       \* index of the region of the current unit (0: global)
    unit_seen,                    \* entries processed in the current (region, kind) unit
    total_seen,                   \* entries processed in the run
    last,                         \* history: the entry processed last, and what became of it
    failed_units,                 \* history: the units whose try block ended in except ClientError
    raised,                       \* the exception that escaped run_discovery, or None
    reports_written,              \* report files written
    \* ---- one call of is_resource_old
    instant,                      \* the instant the timestamp denotes, in days
    creation_time,                \* the argument of is_resource_old
    is_old,                       \* its result, None before the call
    \* ---- cleanup (ResourceCleaner.cleanup_resources)
    report_file,                  \* the file at the given path: "missing", "malformed" or "ok"
    report,                       \* the parsed JSON document: kind key -> list of entries
    resource_ids,                 \* the identifiers the caller gave
    cpc,                          \* "start", "scan", "print", "returned", "raised", "idle"
    rid,                          \* index of the current resource_id
    kpos,                         \* index of the kind loop running for it
    epos,                         \* index of the next entry of that loop
    results,                      \* results['successful'], results['failed']
    calls,                        \* history: the deletion calls issued
    attempts,                     \* history: the delete_* calls that returned, in order
    last_delete_stack,            \* history: the last execution of delete_stack
    printed,                      \* the results were printed
    craised                       \* the exception that escaped cleanup_resources, or None

dvars == <<age_arg, inv_arg, age_threshold_date, lambda_invocation_threshold, findings,
           dpc, region, unit_seen, total_seen, last, failed_units, raised, reports_written>>

avars == <<instant, creation_time, is_old>>

cvars == <<report_file, report, resource_ids, cpc, rid, kpos, epos, results, calls, attempts,
           last_delete_stack, printed, craised>>

(* ============================================================ discovery *)
(* run_discovery's order of the kinds *)
DiscoveryKinds == <<"stacks", "lambdas", "s3_buckets", "api_gateways", "dynamodb_tables">>

KindSet == {DiscoveryKinds[i] : i \in 1..Len(DiscoveryKinds)}

(* The kinds whose listing is read through a paginator: a later page may    *)
(* fail after the entries of the earlier pages were processed.  list_buckets *)
(* and get_rest_apis are single calls.                                      *)
Paginated == {"stacks", "lambdas", "dynamodb_tables"}

StackStatuses == {"CREATE_COMPLETE", "DELETE_COMPLETE"}

(* Creation times the provider reports: older than the default cutoff, at   *)
(* the default cutoff, and one day before the run.                          *)
Times == {Now - DEFAULT_AGE_THRESHOLD_DAYS - 1, Now - DEFAULT_AGE_THRESHOLD_DAYS, Now - 1}

AgeArgs == {None, Some(0), Some(1)}

InvArgs == {None, Some(0), Some(1)}

(* Outcomes of one provider call *)
ApiOutcomes == {"ok", "ClientError", "BotoCoreError"}

(* Datapoints lists of a get_metric_statistics response *)
Datapoints == {<<>>, <<0>>, <<1>>, <<1, 1>>}

RECURSIVE SumSeq(_)
(* sum(datapoint['Sum'] for datapoint in response['Datapoints']) *)
SumSeq(s) == IF s = <<>> THEN 0 ELSE s[1] + SumSeq(Tail(s))

(* get_lambda_metrics: the total, or None on a ClientError; any other       *)
(* exception is not caught here and is reported as "raise".                 *)
get_lambda_metrics(outcome, datapoints) ==
    CASE outcome = "ok" -> [ret |-> Some(SumSeq(datapoints)), exc |-> None]
      [] outcome = "ClientError" -> [ret |-> None, exc |-> None]
      [] OTHER -> [ret |-> None, exc |-> Some(outcome)]

(* The unit after (kind index k, region r) in the loops of run_discovery:   *)
(* the kind's next region, else the next kind's first unit, else the report. *)
FirstRegion(kind) == IF kind = "s3_buckets" THEN 0 ELSE 1

KindIndex(kind) == CHOOSE i \in 1..Len(DiscoveryKinds) : DiscoveryKinds[i] = kind

NextUnit(kind, r) ==
    IF kind # "s3_buckets" /\ r < NumRegions
    THEN [dpc |-> kind, region |-> r + 1]
    ELSE IF KindIndex(kind) < Len(DiscoveryKinds)
         THEN [dpc |-> DiscoveryKinds[KindIndex(kind) + 1],
               region |-> FirstRegion(DiscoveryKinds[KindIndex(kind) + 1])]
         ELSE [dpc |-> "report", region |-> 0]

EmptyFindings == [k \in KindSet |-> <<>>]

(* The state of a constructed OrphanResourceDiscovery *)
Constructed ==
    /\ age_arg \in AgeArgs
    /\ inv_arg \in InvArgs
    /\ age_threshold_date = AgeThresholdDate(age_arg)
    /\ lambda_invocation_threshold = PyOr(inv_arg, DEFAULT_LAMBDA_INVOCATION_THRESHOLD)
    /\ findings = EmptyFindings
    /\ region = 1
    /\ unit_seen = 0
    /\ total_seen = 0
    /\ last = None
    /\ failed_units = {}
    /\ raised = None
    /\ reports_written = 0

NoAgeCall == instant = 0 /\ creation_time = [dt |-> 0] /\ is_old = None

(* cleanup_resources before its first statement *)
CleanupIdle ==
    /\ rid = 1
    /\ kpos = 1
    /\ epos = 1
    /\ results = [successful |-> <<>>, failed |-> <<>>]
    /\ calls = {}
    /\ attempts = <<>>
    /\ last_delete_stack = None
    /\ printed = FALSE
    /\ craised = None

(* No cleanup run *)
NoCleanup ==
    /\ report_file = "missing"
    /\ report = <<>>
    /\ resource_ids = <<>>
    /\ cpc = "idle"
    /\ CleanupIdle

DiscoveryInit == Constructed /\ dpc = "stacks" /\ NoAgeCall /\ NoCleanup

Entry(name, t, live, fetch, invocations, found) ==
    Some([kind |-> dpc, region |-> region, name |-> name, t |-> t, live |-> live,
          fetch |-> fetch, invocations |-> invocations, found |-> found])

(* The loop body went on to the next entry of the listing. *)
Continue(entry) ==
    /\ last' = entry
    /\ unit_seen' = unit_seen + 1
    /\ total_seen' = total_seen + 1
    /\ UNCHANGED <<dpc, region, failed_units, raised, reports_written>>

(* The loop body appended a finding. *)
AppendFinding(entry, finding) ==
    /\ findings' = [findings EXCEPT ![dpc] = Append(@, finding)]
    /\ Continue(entry)

(* except ClientError: the unit ends, the region loop goes on. *)
UnitFails(entry, n) ==
    /\ last' = entry
    /\ failed_units' = failed_units \cup {<<dpc, region>>}
    /\ dpc' = NextUnit(dpc, region).dpc
    /\ region' = NextUnit(dpc, region).region
    /\ unit_seen' = 0
    /\ total_seen' = total_seen + n
    /\ UNCHANGED <<findings, raised, reports_written>>

(* An exception that is no ClientError leaves the discover_* method and     *)
(* run_discovery: nothing further is enumerated, no report is written.      *)
Escapes(entry, n, exc, at) ==
    /\ last' = entry
    /\ raised' = Some([exc |-> exc, kind |-> dpc, region |-> region, at |-> at])
    /\ dpc' = "crashed"
    /\ total_seen' = total_seen + n
    /\ UNCHANGED <<findings, region, unit_seen, failed_units, reports_written>>

CanFault == Cardinality(failed_units) < MaxFaults

(* discover_stacks: one iteration of `for stack in page['StackSummaries']` *)
DiscoverStack ==
    /\ dpc = "stacks"
    /\ total_seen < MaxEntries
    /\ \E name \in Names, status \in StackStatuses, t \in Times, detail \in ApiOutcomes :
          LET live == status \notin {"DELETE_COMPLETE"}
              cand == live /\ HasMarker(name) /\ is_resource_old([dt |-> t], age_threshold_date)
          IN  IF ~cand
              THEN /\ detail = "ok"
                   /\ Continue(Entry(name, t, live, "none", None, FALSE))
                   /\ UNCHANGED findings
              ELSE CASE detail = "ok" ->
                          AppendFinding(Entry(name, t, live, "ok", None, TRUE),
                                 [name |-> name, creation_time |-> isoformat(t, "+00:00"),
                                  status |-> status, region |-> region])
                     [] detail = "ClientError" ->
                          CanFault /\ UnitFails(Entry(name, t, live, detail, None, FALSE), 1)
                     [] OTHER ->
                          Escapes(Entry(name, t, live, detail, None, FALSE), 1, detail, "detail")
    /\ UNCHANGED <<age_arg, inv_arg, age_threshold_date, lambda_invocation_threshold, avars, cvars>>

(* discover_lambdas: one iteration of `for function in page['Functions']`. *)
(* has_runtime: the listing entry carries the 'Runtime' attribute (a        *)
(* function deployed as a container image has none).                        *)
DiscoverLambda ==
    /\ dpc = "lambdas"
    /\ total_seen < MaxEntries
    /\ \E name \in Names, t \in Times, outcome \in ApiOutcomes, dps \in Datapoints,
          has_runtime \in BOOLEAN :
          LET old == is_resource_old([dt |-> t], age_threshold_date)
              m == get_lambda_metrics(outcome, dps)
              invocations == m.ret
          IN  IF ~old
              THEN /\ outcome = "ok" /\ dps = <<>> /\ has_runtime
                   /\ Continue(Entry(name, t, TRUE, "none", None, FALSE))
                   /\ UNCHANGED findings
              ELSE IF m.exc # None
              THEN /\ dps = <<>> /\ has_runtime
                   /\ Escapes(Entry(name, t, TRUE, outcome, None, FALSE), 1, m.exc[1], "metrics")
              ELSE IF ~(invocations # None /\ invocations[1] <= lambda_invocation_threshold)
              THEN /\ has_runtime
                   /\ (outcome = "ok" \/ dps = <<>>)
                   /\ Continue(Entry(name, t, TRUE, outcome, invocations, FALSE))
                   /\ UNCHANGED findings
              ELSE IF ~has_runtime
              THEN Escapes(Entry(name, t, TRUE, "KeyError", invocations, FALSE), 1,
                           "KeyError", "attribute")
              ELSE AppendFinding(Entry(name, t, TRUE, "ok", invocations, TRUE),
                          [name |-> name, creation_time |-> isoformat(t, "+00:00"),
                           region |-> region])
    /\ UNCHANGED <<age_arg, inv_arg, age_threshold_date, lambda_invocation_threshold, avars, cvars>>

(* discover_s3_buckets: one iteration of `for bucket in response['Buckets']` *)
DiscoverBucket ==
    /\ dpc = "s3_buckets"
    /\ total_seen < MaxEntries
    /\ \E name \in Names, t \in Times :
          IF HasMarker(name) /\ is_resource_old([dt |-> t], age_threshold_date)
          THEN AppendFinding(Entry(name, t, TRUE, "none", None, TRUE),
                      [name |-> name, creation_time |-> isoformat(t, "+00:00"),
                       region |-> region])
          ELSE /\ Continue(Entry(name, t, TRUE, "none", None, FALSE))
               /\ UNCHANGED findings
    /\ UNCHANGED <<age_arg, inv_arg, age_threshold_date, lambda_invocation_threshold, avars, cvars>>

ApiIds == {"a1b2c3"}

(* discover_api_gateways: one iteration of `for api in response['items']` *)
DiscoverApi ==
    /\ dpc = "api_gateways"
    /\ total_seen < MaxEntries
    /\ \E id \in ApiIds, name \in Names, t \in Times :
          IF HasMarker(name) /\ is_resource_old([dt |-> t], age_threshold_date)
          THEN AppendFinding(Entry(name, t, TRUE, "none", None, TRUE),
                      [id |-> id, name |-> name, creation_time |-> isoformat(t, "+00:00"),
                       region |-> region])
          ELSE /\ Continue(Entry(name, t, TRUE, "none", None, FALSE))
               /\ UNCHANGED findings
    /\ UNCHANGED <<age_arg, inv_arg, age_threshold_date, lambda_invocation_threshold, avars, cvars>>

(* discover_dynamodb_tables: one iteration of `for table_name in page['TableNames']` *)
DiscoverTable ==
    /\ dpc = "dynamodb_tables"
    /\ total_seen < MaxEntries
    /\ \E name \in Names, t \in Times, detail \in ApiOutcomes :
          IF ~HasMarker(name)
          THEN /\ detail = "ok"
               /\ Continue(Entry(name, t, TRUE, "none", None, FALSE))
               /\ UNCHANGED findings
          ELSE CASE detail = "ok" ->
                      IF is_resource_old([dt |-> t], age_threshold_date)
                      THEN AppendFinding(Entry(name, t, TRUE, "ok", None, TRUE),
                                  [name |-> name, creation_time |-> isoformat(t, "+00:00"),
                                   region |-> region])
                      ELSE /\ Continue(Entry(name, t, TRUE, "ok", None, FALSE))
                           /\ UNCHANGED findings
                 [] detail = "ClientError" ->
                      CanFault /\ UnitFails(Entry(name, t, TRUE, detail, None, FALSE), 1)
                 [] OTHER ->
                      Escapes(Entry(name, t, TRUE, detail, None, FALSE), 1, detail, "detail")
    /\ UNCHANGED <<age_arg, inv_arg, age_threshold_date, lambda_invocation_threshold, avars, cvars>>

(* The listing of the current unit is exhausted: the try block ends and the *)
(* loop goes on to the next region or the next discover_* method.           *)
ListingDone ==
    /\ dpc \in KindSet
    /\ dpc' = NextUnit(dpc, region).dpc
    /\ region' = NextUnit(dpc, region).region
    /\ unit_seen' = 0
    /\ UNCHANGED <<age_arg, inv_arg, age_threshold_date, lambda_invocation_threshold,
                   findings, total_seen, last, failed_units, raised, reports_written,
                   avars, cvars>>

(* The listing call of the current unit (or, with a paginator, the fetch of *)
(* a later page) raises ClientError: caught by the unit's except clause.    *)
ListingClientError ==
    /\ dpc \in KindSet
    /\ dpc \in Paginated \/ unit_seen = 0
    /\ CanFault
    /\ UnitFails(last, 0)
    /\ UNCHANGED <<age_arg, inv_arg, age_threshold_date, lambda_invocation_threshold, avars, cvars>>

(* The same call raises an exception that is no ClientError. *)
ListingOtherError ==
    /\ dpc \in KindSet
    /\ dpc \in Paginated \/ unit_seen = 0
    /\ Escapes(last, 0, "BotoCoreError", "listing")
    /\ UNCHANGED <<age_arg, inv_arg, age_threshold_date, lambda_invocation_threshold, avars, cvars>>

(* run_discovery after the five discover_* calls: json.dump of the findings *)
WriteReport ==
    /\ dpc = "report"
    /\ reports_written' = reports_written + 1
    /\ dpc' = "done"
    /\ UNCHANGED <<age_arg, inv_arg, age_threshold_date, lambda_invocation_threshold,
                   findings, region, unit_seen, total_seen, last, failed_units, raised,
                   avars, cvars>>

DiscoveryNext ==
    \/ DiscoverStack
    \/ DiscoverLambda
    \/ DiscoverBucket
    \/ DiscoverApi
    \/ DiscoverTable
    \/ ListingDone
    \/ ListingClientError
    \/ ListingOtherError
    \/ WriteReport

vars == <<dvars, avars, cvars>>

SpecDiscovery == DiscoveryInit /\ [][DiscoveryNext]_vars

(* ====================================================== is_resource_old *)
(* Instants around the cutoffs of the thresholds 0, 1, 2 and 90 days. *)
AgeInstants == (Now - DEFAULT_AGE_THRESHOLD_DAYS - 2)..Now

AgeCallArgs == {None, Some(0), Some(1), Some(2), Some(DEFAULT_AGE_THRESHOLD_DAYS)}

AgeInit ==
    /\ age_arg \in AgeCallArgs
    /\ inv_arg = None
    /\ age_threshold_date = AgeThresholdDate(age_arg)
    /\ lambda_invocation_threshold = PyOr(inv_arg, DEFAULT_LAMBDA_INVOCATION_THRESHOLD)
    /\ findings = EmptyFindings
    /\ dpc = "idle"
    /\ region = 1
    /\ unit_seen = 0
    /\ total_seen = 0
    /\ last = None
    /\ failed_units = {}
    /\ raised = None
    /\ reports_written = 0
    /\ instant \in AgeInstants
    /\ creation_time \in {[dt |-> instant], [iso |-> isoformat(instant, "Z")],
                          [iso |-> isoformat(instant, "+00:00")]}
    /\ is_old = None
    /\ NoCleanup

(* One call self.is_resource_old(creation_time) *)
CallIsResourceOld ==
    /\ is_old = None
    /\ is_old' = Some(is_resource_old(creation_time, age_threshold_date))
    /\ UNCHANGED <<dvars, instant, creation_time, cvars>>

SpecAge == AgeInit /\ [][CallIsResourceOld]_vars

(* ============================================================== cleanup *)
(* The five loops of cleanup_resources in their order: the report key       *)
(* scanned, the entry field compared, the tag recorded in the results.      *)
CleanupKinds ==
    << [key |-> "stacks", field |-> "name", tag |-> "stack"],
       [key |-> "s3_buckets", field |-> "name", tag |-> "s3_bucket"],
       [key |-> "lambdas", field |-> "name", tag |-> "lambda"],
       [key |-> "api_gateways", field |-> "id", tag |-> "api_gateway"],
       [key |-> "dynamodb_tables", field |-> "name", tag |-> "dynamodb"] >>

Ids == {"my-bucket", "my-app"}

Call(api, target) == [api |-> api, target |-> target]

(* Outcomes of subprocess.run(['serverless', 'remove', ...]): the tool is   *)
(* not installed (FileNotFoundError), run raises otherwise, the tool exits  *)
(* non-zero, the tool exits zero.                                           *)
ToolOutcomes == {"absent", "raised", "nonzero", "zero"}

(* delete_stack: [ret, exc, calls]; exc is the exception that leaves it. *)
delete_stack(stack_name, tool, native) ==
    LET run == <<Call("serverless remove", stack_name)>>
        fallback == Append(run, Call("cloudformation.delete_stack", stack_name))
    IN  IF tool = "zero"
        THEN [ret |-> TRUE, exc |-> None, calls |-> run]
        ELSE CASE native = "ok" -> [ret |-> TRUE, exc |-> None, calls |-> fallback]
               [] native = "ClientError" -> [ret |-> FALSE, exc |-> None, calls |-> fallback]
               [] OTHER -> [ret |-> FALSE, exc |-> Some(native), calls |-> fallback]

(* empty_and_delete_bucket: its three provider calls in order; fail_at is    *)
(* the call that raises (0: none), err what it raises.                      *)
BucketCalls == <<"s3.objects.delete", "s3.object_versions.delete", "s3.delete_bucket">>

empty_and_delete_bucket(bucket_name, fail_at, err) ==
    LET n == IF fail_at = 0 THEN Len(BucketCalls) ELSE fail_at
        issued == [i \in 1..n |-> Call(BucketCalls[i], bucket_name)]
    IN  IF fail_at = 0
        THEN [ret |-> TRUE, exc |-> None, calls |-> issued]
        ELSE IF err = "ClientError"
        THEN [ret |-> FALSE, exc |-> None, calls |-> issued]
        ELSE [ret |-> FALSE, exc |-> Some(err), calls |-> issued]

(* delete_lambda_function, delete_api_gateway, delete_dynamodb_table: one    *)
(* provider call each.                                                      *)
delete_single(api, id, outcome) ==
    CASE outcome = "ok" -> [ret |-> TRUE, exc |-> None, calls |-> <<Call(api, id)>>]
      [] outcome = "ClientError" -> [ret |-> FALSE, exc |-> None, calls |-> <<Call(api, id)>>]
      [] OTHER -> [ret |-> FALSE, exc |-> Some(outcome), calls |-> <<Call(api, id)>>]

delete_lambda_function(function_name, outcome) ==
    delete_single("lambda.delete_function", function_name, outcome)

delete_api_gateway(api_id, outcome) ==
    delete_single("apigateway.delete_rest_api", api_id, outcome)

delete_dynamodb_table(table_name, outcome) ==
    delete_single("dynamodb.delete_table", table_name, outcome)

(* ---- the inputs of a cleanup run *)
NameEntries == {[name |-> x] : x \in Ids}

ApiEntries == {[id |-> x, name |-> y] : x \in Ids, y \in Ids}

(* The lists of at most n entries drawn from E *)
Buckets(E, n) == UNION {[1..m -> E] : m \in 0..n}

ReportKeys == {CleanupKinds[i].key : i \in 1..Len(CleanupKinds)}

IdLists == UNION {[1..n -> Ids] : n \in 1..MaxIds}

CleanupInit ==
    /\ age_arg = None
    /\ inv_arg = None
    /\ Constructed
    /\ dpc = "idle"
    /\ NoAgeCall
    /\ resource_ids \in IdLists
    /\ report_file \in {"missing", "malformed", "ok"}
    /\ IF report_file # "ok"
       THEN report = <<>>
       ELSE \E missing \in SUBSET ReportKeys :
            \E st \in Buckets(NameEntries, MaxReportEntries) :
            \E s3 \in Buckets(NameEntries, MaxReportEntries - Len(st)) :
            \E la \in Buckets(NameEntries, MaxReportEntries - Len(st) - Len(s3)) :
            \E api \in Buckets(ApiEntries, MaxReportEntries - Len(st) - Len(s3) - Len(la)) :
            \E tb \in Buckets(NameEntries,
                              MaxReportEntries - Len(st) - Len(s3) - Len(la) - Len(api)) :
               LET full == [stacks |-> st, s3_buckets |-> s3, lambdas |-> la,
                            api_gateways |-> api, dynamodb_tables |-> tb]
               IN  /\ Cardinality(missing) <= MaxMissingKeys
                   /\ \A k \in missing : full[k] = <<>>
                   /\ report = [k \in ReportKeys \ missing |-> full[k]]
    /\ cpc = "start"
    /\ CleanupIdle

(* ---- cleanup_resources *)
(* open(report_file) and json.load: FileNotFoundError is caught and the      *)
(* method returns; json.JSONDecodeError is not caught.                      *)
LoadReport ==
    /\ cpc = "start"
    /\ CASE report_file = "missing" -> cpc' = "returned" /\ UNCHANGED craised
         [] report_file = "malformed" -> cpc' = "raised" /\ craised' = Some("JSONDecodeError")
         [] OTHER -> cpc' = "scan" /\ UNCHANGED craised
    /\ UNCHANGED <<dvars, avars, report_file, report, resource_ids, rid, kpos, epos, results,
                   calls, attempts, last_delete_stack, printed>>

resource_id == resource_ids[rid]

Kind == CleanupKinds[kpos]

(* A loop `for x in report[key]` is at an entry. *)
AtEntry(key) ==
    /\ cpc = "scan"
    /\ Kind.key = key
    /\ key \in DOMAIN report
    /\ epos <= Len(report[key])

(* A comparison of the entry's 'name' in every loop, the api_gateways loop   *)
(* included, in place of the loop's own identifier field.                   *)
MatchesByName == report[Kind.key][epos].name = resource_id

(* stack['name'] == resource_id, ..., api['id'] == resource_id *)
Matches == report[Kind.key][epos][Kind.field] = resource_id

(* The entry does not match: the loop goes on. *)
Skip ==
    /\ epos' = epos + 1
    /\ UNCHANGED <<cpc, results, calls, attempts, craised>>

(* The delete_* call ended with r: its outcome is appended to a list of the  *)
(* results and the loop goes on, or its exception leaves cleanup_resources.  *)
Record(r) ==
    /\ calls' = calls \cup {r.calls[i] : i \in DOMAIN r.calls}
    /\ IF r.exc # None
       THEN /\ cpc' = "raised"
            /\ craised' = r.exc
            /\ UNCHANGED <<epos, results, attempts>>
       ELSE /\ epos' = epos + 1
            /\ attempts' = Append(attempts, [kind |-> Kind.tag, id |-> resource_id, ret |-> r.ret])
            /\ results' = IF r.ret
                          THEN [results EXCEPT !.successful = Append(@, <<Kind.tag, resource_id>>)]
                          ELSE [results EXCEPT !.failed = Append(@, <<Kind.tag, resource_id>>)]
            /\ UNCHANGED <<cpc, craised>>

(* One iteration of `for stack in report['stacks']` *)
HandleStack ==
    /\ AtEntry("stacks")
    /\ \E tool \in ToolOutcomes, native \in ApiOutcomes :
          IF ~Matches
          THEN tool = "zero" /\ native = "ok" /\ Skip /\ UNCHANGED last_delete_stack
          ELSE /\ tool = "zero" => native = "ok"
               /\ Record(delete_stack(resource_id, tool, native))
               /\ last_delete_stack' =
                     Some([tool |-> tool, native |-> native,
                           result |-> delete_stack(resource_id, tool, native)])
    /\ UNCHANGED <<dvars, avars, report_file, report, resource_ids, rid, kpos, printed>>

(* One iteration of `for bucket in report['s3_buckets']` *)
HandleBucket ==
    /\ AtEntry("s3_buckets")
    /\ \E fail_at \in 0..Len(BucketCalls), err \in {"ClientError", "BotoCoreError"} :
          IF ~Matches
          THEN fail_at = 0 /\ err = "ClientError" /\ Skip
          ELSE /\ fail_at = 0 => err = "ClientError"
               /\ Record(empty_and_delete_bucket(resource_id, fail_at, err))
    /\ UNCHANGED <<dvars, avars, report_file, report, resource_ids, rid, kpos, printed,
                   last_delete_stack>>

(* One iteration of `for func in report['lambdas']` *)
HandleLambda ==
    /\ AtEntry("lambdas")
    /\ \E outcome \in ApiOutcomes :
          IF ~Matches
          THEN outcome = "ok" /\ Skip
          ELSE Record(delete_lambda_function(resource_id, outcome))
    /\ UNCHANGED <<dvars, avars, report_file, report, resource_ids, rid, kpos, printed,
                   last_delete_stack>>

(* One iteration of `for api in report['api_gateways']` *)
HandleApi ==
    /\ AtEntry("api_gateways")
    /\ \E outcome \in ApiOutcomes :
          IF ~Matches
          THEN outcome = "ok" /\ Skip
          ELSE Record(delete_api_gateway(resource_id, outcome))
    /\ UNCHANGED <<dvars, avars, report_file, report, resource_ids, rid, kpos, printed,
                   last_delete_stack>>

(* One iteration of `for table in report['dynamodb_tables']` *)
HandleTable ==
    /\ AtEntry("dynamodb_tables")
    /\ \E outcome \in ApiOutcomes :
          IF ~Matches
          THEN outcome = "ok" /\ Skip
          ELSE Record(delete_dynamodb_table(resource_id, outcome))
    /\ UNCHANGED <<dvars, avars, report_file, report, resource_ids, rid, kpos, printed,
                   last_delete_stack>>

(* A loop over a kind is exhausted: the next kind's loop starts, or the next *)
(* resource_id's first loop, or the loops are over.                         *)
LoopEnds ==
    /\ cpc = "scan"
    /\ Kind.key \in DOMAIN report
    /\ epos > Len(report[Kind.key])
    /\ epos' = 1
    /\ IF kpos < Len(CleanupKinds)
       THEN kpos' = kpos + 1 /\ UNCHANGED <<rid, cpc>>
       ELSE IF rid < Len(resource_ids)
       THEN kpos' = 1 /\ rid' = rid + 1 /\ UNCHANGED cpc
       ELSE cpc' = "print" /\ UNCHANGED <<rid, kpos>>
    /\ UNCHANGED <<dvars, avars, report_file, report, resource_ids, results, calls, attempts,
                   last_delete_stack, printed, craised>>

(* report[key] on a report without the key: KeyError, which nothing catches. *)
KeyMissing ==
    /\ cpc = "scan"
    /\ Kind.key \notin DOMAIN report
    /\ cpc' = "raised"
    /\ craised' = Some("KeyError")
    /\ UNCHANGED <<dvars, avars, report_file, report, resource_ids, rid, kpos, epos, results,
                   calls, attempts, last_delete_stack, printed>>

(* The printout of both lists ends cleanup_resources. *)
PrintResults ==
    /\ cpc = "print"
    /\ printed' = TRUE
    /\ cpc' = "returned"
    /\ UNCHANGED <<dvars, avars, report_file, report, resource_ids, rid, kpos, epos, results,
                   calls, attempts, last_delete_stack, craised>>

CleanupNext ==
    \/ LoadReport
    \/ HandleStack
    \/ HandleBucket
    \/ HandleLambda
    \/ HandleApi
    \/ HandleTable
    \/ LoopEnds
    \/ KeyMissing
    \/ PrintResults

SpecCleanup == CleanupInit /\ [][CleanupNext]_vars

(* ================================================================ claims *)

(* The age threshold in days the caller gave: the flag's value, 90 only     *)
(* when the flag is omitted.                                                *)
GivenAgeDays == IF age_arg = None THEN DEFAULT_AGE_THRESHOLD_DAYS ELSE age_arg[1]

(* The classifier of the specification on an enumerated entry e. *)
Classified(e) ==
    /\ HasMarker(e.name)
    /\ is_resource_old([dt |-> e.t], age_threshold_date)
    /\ e.kind = "lambdas" =>
          e.invocations # None /\ e.invocations[1] <= lambda_invocation_threshold

(* C1: every live resource that discovery enumerates (and whose processing  *)
(* ran to its end) is appended to its kind's findings iff its name contains *)
(* the marker in any casing, it passes the age predicate and, for a         *)
(* function, its invocation sum is at most the threshold; in particular no  *)
(* finding of any kind has a name without the marker.                       *)
C1_FindingIffClassified ==
    /\ last # None /\ last[1].live =>
          /\ last[1].found => Classified(last[1])
          /\ last[1].fetch \in {"none", "ok"} /\ Classified(last[1]) => last[1].found
    /\ \A k \in KindSet : \A i \in DOMAIN findings[k] : HasMarker(findings[k][i].name)

(* C2: is_resource_old(T) is true iff T is strictly earlier than run start  *)
(* minus D days, for every threshold D >= 0 given, 0 included.              *)
C2_OldIffBeforeGivenCutoff ==
    is_old # None => (is_old[1] <=> instant < Now - GivenAgeDays)

(* C3: a function whose metrics query fails is not appended to the findings *)
(* and discovery of the remaining functions of the region continues.        *)
C3_MetricsFailClosed ==
    /\ last # None /\ last[1].kind = "lambdas"
          /\ last[1].fetch \in {"ClientError", "BotoCoreError"} => ~last[1].found
    /\ ~(raised # None /\ raised[1].at = "metrics")

(* C4: no failure of a listing or detail-fetch call, and no listing entry   *)
(* lacking an attribute, aborts the run: the remaining units are still      *)
(* enumerated and exactly one report is written at the end.                 *)
C4_ErrorIsolation ==
    /\ dpc # "crashed"
    /\ dpc = "done" => reports_written = 1

(* C5: after the run, no finding comes from a (region, kind) unit whose     *)
(* enumeration or detail fetch failed.                                      *)
C5_FailedUnitContributesNothing ==
    dpc = "done" =>
        \A k \in KindSet : \A i \in DOMAIN findings[k] :
            <<k, findings[k][i].region>> \notin failed_units

(* ---- cleanup *)
(* The run of cleanup_resources went through every loop and the printout. *)
CleanupCompleted == cpc = "returned" /\ printed

(* The number of delete_* calls made for the pair (tag, id). *)
AttemptsFor(tag, id) ==
    Cardinality({i \in DOMAIN attempts : attempts[i].kind = tag /\ attempts[i].id = id})

(* The report's bucket of the kind k holds an entry with the identifier id. *)
InBucket(k, id) ==
    /\ k.key \in DOMAIN report
    /\ \E j \in DOMAIN report[k.key] : report[k.key][j][k.field] = id

SuppliedIds == {resource_ids[i] : i \in DOMAIN resource_ids}

IsSuccess(a) == a.ret

IsFailure(a) == ~a.ret

Pairs(as) == [i \in DOMAIN as |-> <<as[i].kind, as[i].id>>]

(* C6: when the report file is missing or malformed, cleanup issues no      *)
(* deletion call and returns without raising.                               *)
C6_UnreadableReportNoDeletion ==
    report_file \in {"missing", "malformed"} => calls = {} /\ cpc # "raised"

(* C7: for each supplied identifier (each given once) and each kind whose   *)
(* bucket holds an entry with it, a completed cleanup has made exactly one  *)
(* deletion attempt for that pair, also when the bucket holds several       *)
(* entries with the identifier.                                             *)
C7_OneAttemptPerPair ==
    CleanupCompleted /\ Cardinality(SuppliedIds) = Len(resource_ids) =>
        \A id \in SuppliedIds : \A n \in DOMAIN CleanupKinds :
            InBucket(CleanupKinds[n], id) => AttemptsFor(CleanupKinds[n].tag, id) = 1

(* C8: on a readable report that lacks expected kind keys cleanup does not  *)
(* crash on the absent key.                                                 *)
C8_MissingKeyNoCrash ==
    report_file = "ok" /\ DOMAIN report # ReportKeys => craised # Some("KeyError")

(* C9: delete_stack invokes the removal tool first, issues the native       *)
(* delete call iff the tool was absent, raised or exited non-zero, returns  *)
(* success iff the tool exited zero or the native call returned, and        *)
(* returns failure otherwise, without raising.                              *)
C9_DeleteStackStrategies ==
    last_delete_stack # None =>
        LET e == last_delete_stack[1]
            r == e.result
        IN  /\ r.calls[1].api = "serverless remove"
            /\ (\E i \in DOMAIN r.calls : r.calls[i].api = "cloudformation.delete_stack")
                  <=> e.tool \in {"absent", "raised", "nonzero"}
            /\ \A i \in DOMAIN r.calls :
                  r.calls[i].api = "cloudformation.delete_stack" => i = 2
            /\ r.exc = None
            /\ r.ret <=> (e.tool = "zero" \/ e.native = "ok")

(* C10: a completed cleanup has attempted every matching pair, lists each   *)
(* attempt once, in attempt order, under 'successful' if it returned        *)
(* success and under 'failed' otherwise, has no entry in both lists and     *)
(* has not tried a failed pair again.                                       *)
C10_ResultsPartitionAttempts ==
    CleanupCompleted =>
        /\ \A id \in SuppliedIds : \A n \in DOMAIN CleanupKinds :
              InBucket(CleanupKinds[n], id) => AttemptsFor(CleanupKinds[n].tag, id) >= 1
        /\ results.successful = Pairs(SelectSeq(attempts, IsSuccess))
        /\ results.failed = Pairs(SelectSeq(attempts, IsFailure))
        /\ \A i \in DOMAIN results.successful : \A j \in DOMAIN results.failed :
              results.successful[i] # results.failed[j]
        /\ \A i \in DOMAIN attempts : \A j \in DOMAIN attempts :
              i < j /\ ~attempts[i].ret =>
                  <<attempts[i].kind, attempts[i].id>> # <<attempts[j].kind, attempts[j].id>>

(* The loop of cleanup_resources that issues the call `api`. *)
KindOfCall(api) ==
    CASE api \in {"serverless remove", "cloudformation.delete_stack"} -> CleanupKinds[1]
      [] api \in {BucketCalls[i] : i \in DOMAIN BucketCalls} -> CleanupKinds[2]
      [] api = "lambda.delete_function" -> CleanupKinds[3]
      [] api = "apigateway.delete_rest_api" -> CleanupKinds[4]
      [] api = "dynamodb.delete_table" -> CleanupKinds[5]

(* C11: every deletion call issued, of whatever kind, targets an identifier *)
(* the caller supplied and that the report's bucket of that kind holds in   *)
(* an entry's identifier field ('id' for api_gateways, 'name' otherwise).   *)
C11_DeletionsOnlyNamedReportEntries ==
    \A c \in calls :
        /\ c.target \in SuppliedIds
        /\ InBucket(KindOfCall(c.api), c.target)

(* A completed cleanup that issued a deletion call on a report holding an   *)
(* entry the caller did not name and an API whose name, but not its id, is  *)
(* a supplied identifier.                                                   *)
C11_Witness ==
    /\ CleanupCompleted
    /\ calls # {}
    /\ \E n \in DOMAIN CleanupKinds :
          /\ CleanupKinds[n].key \in DOMAIN report
          /\ \E j \in DOMAIN report[CleanupKinds[n].key] :
                report[CleanupKinds[n].key][j][CleanupKinds[n].field] \notin SuppliedIds
    /\ \E j \in DOMAIN report["api_gateways"] :
          /\ report["api_gateways"][j].name \in SuppliedIds
          /\ report["api_gateways"][j].id \notin SuppliedIds

====
